---- MODULE Spec2Model ----
(***************************************************************************)
(* Model of apple/ios_deploy/device_list.rs of cargo-mobile:               *)
(* device_list runs `ios-deploy --detect`, classifies the outcome of the   *)
(* child process and hands the captured standard-out to parse_device_list, *)
(* which decodes it, splits it into events and maps every device           *)
(* announcement to a Device through the Target registry.                   *)
(*                                                                         *)
(* Bytes are integers 0..255.  The decoded text is a sequence of code      *)
(* points.  One ASCII letter of standard-out stands for the JSON text of   *)
(* one event of ios-deploy (table EventTable); any other text yields no    *)
(* event.                                                                  *)
(***************************************************************************)
EXTENDS Integers, Sequences, FiniteSets, TLC

---------------------------------------------------------------------------
(* Bounds *)

MaxLen == 3
MaxErrLen == 1

---------------------------------------------------------------------------
(* Result and Option values *)

Ok(v) == [tag |-> "Ok", val |-> v]
Err(e) == [tag |-> "Err", err |-> e]
Some(v) == [some |-> TRUE, val |-> v]
None == [some |-> FALSE]

(* enum DeviceListError *)
DetectionFailed(err) == [kind |-> "DetectionFailed", err |-> err]
InvalidUtf8(err) == [kind |-> "InvalidUtf8", err |-> err]
ArchInvalid(arch) == [kind |-> "ArchInvalid", arch |-> arch]

---------------------------------------------------------------------------
(* Byte alphabets of the captured streams.  195 169 is the two-byte        *)
(* encoding of U+00E9, 255 is a byte that no UTF-8 text contains, a lone   *)
(* 195 or 169 is malformed.                                                *)

StdoutBytes == {97, 98, 99, 100, 101, 102, 115, 195, 169, 255}
StderrBytes == {69, 255}
ExitCodes == {1, 255}

SeqsUpTo(S, n) == UNION {[1..k -> S] : k \in 0..n}

Outputs == [stdout : SeqsUpTo(StdoutBytes, MaxLen), stderr : SeqsUpTo(StderrBytes, MaxErrLen)]

(* bossy::Error: a non-zero exit carries the captured output, a failure to *)
(* spawn or to wait for the child carries none.                            *)
CommandFailedWithOutput(code, output) ==
    [cause |-> "CommandFailedWithOutput", code |-> code, output |-> output]
WithoutOutput == {[cause |-> "SpawnFailed"], [cause |-> "WaitFailed"]}

error_output(err) ==
    IF err.cause = "CommandFailedWithOutput" THEN Some(err.output) ELSE None

(* run_and_wait_for_output: Ok(output) on a zero exit, Err otherwise *)
run_and_wait_for_output(r) ==
    \/ \E o \in Outputs : r = Ok(o)
    \/ \E o \in Outputs : \E c \in ExitCodes : r = Err(CommandFailedWithOutput(c, o))
    \/ \E e \in WithoutOutput : r = Err(e)

---------------------------------------------------------------------------
(* Strings are ordered byte-wise; StrOrder lists the strings of the model  *)
(* in that order.                                                          *)

StrOrder == <<"A1", "B2", "aarch64-apple-ios", "arm64", "armv7", "m1", "m2",
              "mips-unsupported", "n1", "n2", "x86_64", "x86_64-apple-ios">>

StrRank(s) == CHOOSE i \in 1..Len(StrOrder) : StrOrder[i] = s

StrLt(a, b) == StrRank(a) < StrRank(b)

---------------------------------------------------------------------------
(* Target registry *)

Targets == {[triple |-> "aarch64-apple-ios", arch |-> "arm64"],
            [triple |-> "x86_64-apple-ios", arch |-> "x86_64"]}

for_arch(arch) ==
    IF \E t \in Targets : t.arch = arch
    THEN Some(CHOOSE t \in Targets : t.arch = arch)
    ELSE None

TargetLt(a, b) ==
    \/ StrLt(a.triple, b.triple)
    \/ a.triple = b.triple /\ StrLt(a.arch, b.arch)

---------------------------------------------------------------------------
(* Device and its derived ordering *)

Device_new(id, name, model, target) ==
    [id |-> id, name |-> name, model |-> model, target |-> target]

DeviceLt(a, b) ==
    \/ StrLt(a.id, b.id)
    \/ a.id = b.id /\ StrLt(a.name, b.name)
    \/ a.id = b.id /\ a.name = b.name /\ StrLt(a.model, b.model)
    \/ a.id = b.id /\ a.name = b.name /\ a.model = b.model /\ TargetLt(a.target, b.target)

(* BTreeSet<Device> as its iteration order: a strictly increasing sequence *)
RECURSIVE btree_insert(_, _)
btree_insert(set, d) ==
    IF set = <<>> THEN <<d>>
    ELSE IF DeviceLt(d, Head(set)) THEN <<d>> \o set
    ELSE IF DeviceLt(Head(set), d) THEN <<Head(set)>> \o btree_insert(Tail(set), d)
    ELSE set

---------------------------------------------------------------------------
(* Events of ios-deploy *)

DeviceInfo(id, name, arch, model) ==
    [device_identifier |-> id, device_name |-> name, model_arch |-> arch, model_name |-> model]

DeviceDetected(info) == [event |-> "DeviceDetected", device |-> info]
OtherEvent == [event |-> "Unknown"]

EventTable ==
    (97 :> DeviceDetected(DeviceInfo("A1", "n1", "arm64", "m1"))) @@
    (98 :> DeviceDetected(DeviceInfo("A1", "n1", "x86_64", "m1"))) @@
    (99 :> DeviceDetected(DeviceInfo("A1", "n1", "arm64", "m2"))) @@
    (100 :> DeviceDetected(DeviceInfo("B2", "n2", "arm64", "m1"))) @@
    (101 :> DeviceDetected(DeviceInfo("A1", "n1", "mips-unsupported", "m1"))) @@
    (102 :> DeviceDetected(DeviceInfo("B2", "n2", "armv7", "m1"))) @@
    (115 :> OtherEvent)

(* Event::parse_list: the events of the text, in text order *)
RECURSIVE parse_list(_)
parse_list(text) ==
    IF text = <<>> THEN <<>>
    ELSE IF Head(text) \in DOMAIN EventTable
         THEN <<EventTable[Head(text)]>> \o parse_list(Tail(text))
         ELSE parse_list(Tail(text))

(* Event::device_info *)
device_info(event) ==
    IF event.event = "DeviceDetected" THEN Some(event.device) ELSE None

---------------------------------------------------------------------------
(* bossy::Output::stdout_str = std::str::from_utf8(stdout): one- and       *)
(* two-byte forms, which are the forms the byte alphabet can spell.        *)

RECURSIVE from_utf8(_, _, _)
from_utf8(bytes, i, text) ==
    IF i > Len(bytes) THEN Ok(text)
    ELSE IF bytes[i] < 128 THEN from_utf8(bytes, i + 1, Append(text, bytes[i]))
    ELSE IF /\ bytes[i] \in 194..223
            /\ i + 1 <= Len(bytes)
            /\ bytes[i + 1] \in 128..191
         THEN from_utf8(bytes, i + 2, Append(text, (bytes[i] - 192) * 64 + (bytes[i + 1] - 128)))
    ELSE Err([valid_up_to |-> i - 1])

stdout_str(output) == from_utf8(output.stdout, 1, <<>>)

---------------------------------------------------------------------------
(* parse_device_list *)

(* .flat_map(|event| event.device_info().cloned()) *)
RECURSIVE flat_map_device_info(_)
flat_map_device_info(events) ==
    IF events = <<>> THEN <<>>
    ELSE LET info == device_info(Head(events))
         IN  (IF info.some THEN <<info.val>> ELSE <<>>) \o flat_map_device_info(Tail(events))

(* to_device with the name passed where Device::new takes the model *)
to_device_model_from_name(info) ==
    LET target == for_arch(info.model_arch)
    IN  IF target.some
        THEN Ok(Device_new(info.device_identifier, info.device_name, info.device_name, target.val))
        ELSE Err(ArchInvalid(info.model_arch))

(* to_device with the name and model arguments of Device::new exchanged *)
to_device_swapped(info) ==
    LET target == for_arch(info.model_arch)
    IN  IF target.some
        THEN Ok(Device_new(info.device_identifier, info.model_name, info.device_name, target.val))
        ELSE Err(ArchInvalid(info.model_arch))

(* the closure of .map(...): one announcement to Result<Device, _> *)
to_device(info) ==
    LET target == for_arch(info.model_arch)
    IN  IF target.some
        THEN Ok(Device_new(info.device_identifier, info.device_name, info.model_name, target.val))
        ELSE Err(ArchInvalid(info.model_arch))

(* collect that drops the announcements whose lookup failed *)
RECURSIVE collect_skip_invalid(_, _)
collect_skip_invalid(infos, set) ==
    IF infos = <<>> THEN Ok(set)
    ELSE LET item == to_device(Head(infos))
         IN  IF item.tag = "Err" THEN collect_skip_invalid(Tail(infos), set)
             ELSE collect_skip_invalid(Tail(infos), btree_insert(set, item.val))

(* collect that visits every announcement and keeps the last Err *)
RECURSIVE collect_last_error(_, _)
collect_last_error(infos, set) ==
    IF infos = <<>> THEN Ok(set)
    ELSE LET item == to_device(Head(infos))
         IN  IF item.tag = "Err"
             THEN LET rest == collect_last_error(Tail(infos), set)
                  IN  IF rest.tag = "Err" THEN rest ELSE item
             ELSE collect_last_error(Tail(infos), btree_insert(set, item.val))

(* .collect::<Result<BTreeSet<_>, _>>(): stops at the first Err *)
RECURSIVE collect(_, _)
collect(infos, set) ==
    IF infos = <<>> THEN Ok(set)
    ELSE LET item == to_device(Head(infos))
         IN  IF item.tag = "Err" THEN item
             ELSE collect(Tail(infos), btree_insert(set, item.val))

(* parse_device_list that decodes the valid prefix instead of failing *)
parse_device_list_lossy(output) ==
    LET text == stdout_str(output)
    IN  IF text.tag = "Err"
        THEN collect(flat_map_device_info(parse_list(
                 from_utf8(SubSeq(output.stdout, 1, text.err.valid_up_to), 1, <<>>).val)), <<>>)
        ELSE collect(flat_map_device_info(parse_list(text.val)), <<>>)

(* parse_device_list that reads the two streams as one *)
parse_device_list_both_streams(output) ==
    LET text == from_utf8(output.stdout \o output.stderr, 1, <<>>)
    IN  IF text.tag = "Err" THEN Err(InvalidUtf8(text.err))
        ELSE collect(flat_map_device_info(parse_list(text.val)), <<>>)

parse_device_list(output) ==
    LET text == stdout_str(output)
    IN  IF text.tag = "Err" THEN Err(InvalidUtf8(text.err))
        ELSE collect(flat_map_device_info(parse_list(text.val)), <<>>)

---------------------------------------------------------------------------
(* device_list as a state machine *)

VARIABLES
    pc,        \* "idle", "match", "returned", "panicked"
    result,    \* the value of run_and_wait_for_output
    ret,       \* the value device_list returns
    spawned,   \* child processes started by the current call
    decoded,   \* whether the current call ran parse_device_list
    bytes,     \* repeated parsing: the standard-out bytes parsed
    runs       \* repeated parsing: the results so far

vars == <<pc, result, ret, spawned, decoded, bytes, runs>>

NoValue == [tag |-> "None"]

Init ==
    /\ pc = "idle"
    /\ result = NoValue
    /\ ret = NoValue
    /\ spawned = 0
    /\ decoded = FALSE
    /\ bytes = <<>>
    /\ runs = <<>>

(* lines 54-56: the command is run and waited for *)
Call ==
    /\ pc = "idle"
    /\ run_and_wait_for_output(result')
    /\ spawned' = spawned + 1
    /\ pc' = "match"
    /\ UNCHANGED <<ret, decoded, bytes, runs>>

(* line 58 *)
MatchOk ==
    /\ pc = "match"
    /\ result.tag = "Ok"
    /\ ret' = parse_device_list(result.val)
    /\ decoded' = TRUE
    /\ pc' = "returned"
    /\ UNCHANGED <<result, spawned, bytes, runs>>

(* MatchErr that takes the empty streams as benign for exit code 1 only *)
MatchErr_by_code ==
    /\ pc = "match"
    /\ result.tag = "Err"
    /\ LET output == error_output(result.err)
       IN  IF ~output.some
           THEN /\ pc' = "panicked"
                /\ ret' = NoValue
           ELSE /\ pc' = "returned"
                /\ ret' = IF /\ output.val.stdout = <<>>
                             /\ output.val.stderr = <<>>
                             /\ result.err.code = 1
                          THEN Ok(<<>>)
                          ELSE Err(DetectionFailed(result.err))
    /\ UNCHANGED <<result, spawned, decoded, bytes, runs>>

(* MatchErr with `||` for `&&` *)
MatchErr_either_empty ==
    /\ pc = "match"
    /\ result.tag = "Err"
    /\ LET output == error_output(result.err)
       IN  IF ~output.some
           THEN /\ pc' = "panicked"
                /\ ret' = NoValue
           ELSE /\ pc' = "returned"
                /\ ret' = IF output.val.stdout = <<>> \/ output.val.stderr = <<>>
                          THEN Ok(<<>>)
                          ELSE Err(DetectionFailed(result.err))
    /\ UNCHANGED <<result, spawned, decoded, bytes, runs>>

(* MatchErr with unwrap_or_default for expect *)
MatchErr_default_output ==
    /\ pc = "match"
    /\ result.tag = "Err"
    /\ LET output == error_output(result.err)
           out == IF output.some THEN output.val ELSE [stdout |-> <<>>, stderr |-> <<>>]
       IN  /\ pc' = "returned"
           /\ ret' = IF out.stdout = <<>> /\ out.stderr = <<>>
                     THEN Ok(<<>>)
                     ELSE Err(DetectionFailed(result.err))
    /\ UNCHANGED <<result, spawned, decoded, bytes, runs>>

(* MatchErr that runs the command a second time when the streams are empty *)
MatchErr_retry ==
    /\ pc = "match"
    /\ result.tag = "Err"
    /\ LET output == error_output(result.err)
       IN  IF ~output.some
           THEN /\ pc' = "panicked"
                /\ ret' = NoValue
                /\ UNCHANGED <<result, spawned>>
           ELSE IF output.val.stdout = <<>> /\ output.val.stderr = <<>>
           THEN IF spawned < 2
                THEN /\ run_and_wait_for_output(result')
                     /\ spawned' = spawned + 1
                     /\ pc' = "match"
                     /\ ret' = NoValue
                ELSE /\ pc' = "returned"
                     /\ ret' = Ok(<<>>)
                     /\ UNCHANGED <<result, spawned>>
           ELSE /\ pc' = "returned"
                /\ ret' = Err(DetectionFailed(result.err))
                /\ UNCHANGED <<result, spawned>>
    /\ UNCHANGED <<decoded, bytes, runs>>

(* lines 59-69 *)
MatchErr ==
    /\ pc = "match"
    /\ result.tag = "Err"
    /\ LET output == error_output(result.err)
       IN  IF ~output.some
           THEN /\ pc' = "panicked"
                /\ ret' = NoValue
           ELSE /\ pc' = "returned"
                /\ ret' = IF output.val.stdout = <<>> /\ output.val.stderr = <<>>
                          THEN Ok(<<>>)
                          ELSE Err(DetectionFailed(result.err))
    /\ UNCHANGED <<result, spawned, decoded, bytes, runs>>

(* the caller takes the value; a later call starts afresh *)
Return ==
    /\ pc = "returned"
    /\ pc' = "idle"
    /\ result' = NoValue
    /\ ret' = NoValue
    /\ spawned' = 0
    /\ decoded' = FALSE
    /\ UNCHANGED <<bytes, runs>>

Next == Call \/ MatchOk \/ MatchErr \/ Return

Spec == Init /\ [][Next]_vars

---------------------------------------------------------------------------
(* Repeated parsing of the same standard-out bytes *)

InitParse ==
    /\ pc = "idle"
    /\ result = NoValue
    /\ ret = NoValue
    /\ spawned = 0
    /\ decoded = FALSE
    /\ bytes \in SeqsUpTo(StdoutBytes, MaxLen)
    /\ runs = <<>>

Parse ==
    /\ Len(runs) < 2
    /\ \E e \in SeqsUpTo(StderrBytes, MaxErrLen) :
          LET output == [stdout |-> bytes, stderr |-> e]
          IN  runs' = Append(runs, [output |-> output, value |-> parse_device_list(output)])
    /\ UNCHANGED <<pc, result, ret, spawned, decoded, bytes>>

NextParse == Parse

SpecParse == InitParse /\ [][NextParse]_vars

---------------------------------------------------------------------------
(* Properties *)

Completed == pc = "returned" /\ result.tag = "Ok"
Decodes == stdout_str(result.val).tag = "Ok"

(* the device announcements of the decoded standard-out, in event order *)
Announcements ==
    IF result.tag = "Ok" /\ Decodes
    THEN flat_map_device_info(parse_list(stdout_str(result.val).val))
    ELSE <<>>

Recognized(info) == \E t \in Targets : t.arch = info.model_arch

Unrecognized == {i \in 1..Len(Announcements) : ~Recognized(Announcements[i])}

FirstUnrecognized == Announcements[CHOOSE i \in Unrecognized : \A j \in Unrecognized : i <= j]

IsArchInvalid(r) == r.tag = "Err" /\ r.err.kind = "ArchInvalid"
IsInvalidUtf8(r) == r.tag = "Err" /\ r.err.kind = "InvalidUtf8"
IsDetectionFailed(r) == r.tag = "Err" /\ r.err.kind = "DetectionFailed"

Failed == pc = "returned" /\ result.tag = "Err" /\ error_output(result.err).some

(* C1, as stated: on a completed invocation whose standard-out decodes,    *)
(* for every announcement whose architecture is absent from the registry   *)
(* the call returns ArchInvalid carrying exactly that announcement's       *)
(* architecture string.                                                    *)
C1_EveryUnrecognizedArchCarried ==
    (Completed /\ Decodes) =>
        \A i \in Unrecognized : ret = Err(ArchInvalid(Announcements[i].model_arch))

(* C1, amended: on a completed invocation whose standard-out decodes and   *)
(* holds an announcement with an architecture absent from the registry,    *)
(* the call returns ArchInvalid carrying the architecture string of the    *)
(* first such announcement in event order, and never an Ok collection.     *)
C1_FirstUnrecognizedArchCarried ==
    (Completed /\ Decodes /\ Unrecognized # {}) =>
        /\ ret.tag # "Ok"
        /\ ret = Err(ArchInvalid(FirstUnrecognized.model_arch))

(* a recognized announcement before and after the unrecognized one *)
C1_Witness ==
    /\ Completed /\ Decodes
    /\ Len(Announcements) = 3
    /\ Unrecognized = {2}
    /\ IsArchInvalid(ret)

C3_BenignEmpty ==
    (Failed /\ result.err.output.stdout = <<>> /\ result.err.output.stderr = <<>>) =>
        /\ ret = Ok(<<>>)
        /\ ~decoded

C3_Witness ==
    /\ Failed
    /\ result.err.code = 255
    /\ result.err.output.stdout = <<>> /\ result.err.output.stderr = <<>>
    /\ ret = Ok(<<>>)

(* C4: a non-zero exit with a non-empty stream returns DetectionFailed     *)
(* carrying the process error unchanged, never a collection.               *)
C4_DetectionFailed ==
    (Failed /\ (result.err.output.stdout # <<>> \/ result.err.output.stderr # <<>>)) =>
        ret = Err(DetectionFailed(result.err))

(* standard-out holds a well-formed announcement, standard-error is empty *)
C4_Witness ==
    /\ Failed
    /\ result.err.output.stdout = <<97>>
    /\ result.err.output.stderr = <<>>
    /\ IsDetectionFailed(ret)

(* C5, as stated: whenever the captured output holds invalid text          *)
(* encoding, the call returns InvalidUtf8.                                 *)
C5_AnyCapturedOutput ==
    (/\ pc = "returned"
     /\ \/ result.tag = "Ok" /\ stdout_str(result.val).tag = "Err"
        \/ /\ result.tag = "Err" /\ error_output(result.err).some
           /\ stdout_str(result.err.output).tag = "Err") =>
        IsInvalidUtf8(ret)

(* C5, amended: when the standard-out of a completed (zero exit)           *)
(* invocation holds invalid text encoding, the call returns InvalidUtf8    *)
(* carrying the decode error, and no collection.                           *)
C5_InvalidUtf8 ==
    (Completed /\ ~Decodes) =>
        ret = Err(InvalidUtf8(stdout_str(result.val).err))

(* the invalid byte comes after a well-formed announcement *)
C5_Witness ==
    /\ Completed
    /\ result.val.stdout = <<97, 255>>
    /\ ret = Err(InvalidUtf8([valid_up_to |-> 1]))

(* C6: every record of a returned collection is built from an announcement *)
(* of the decoded output: same identifier, name and model name, and the    *)
(* announcement's architecture resolves to the record's platform.          *)
C6_RecordsFromAnnouncements ==
    (pc = "returned" /\ ret.tag = "Ok") =>
        \A k \in 1..Len(ret.val) :
            \E i \in 1..Len(Announcements) :
                /\ Announcements[i].device_identifier = ret.val[k].id
                /\ Announcements[i].device_name = ret.val[k].name
                /\ Announcements[i].model_name = ret.val[k].model
                /\ \E t \in Targets : t.arch = Announcements[i].model_arch /\ t = ret.val[k].target

C6_Witness ==
    /\ Completed
    /\ ret.tag = "Ok"
    /\ Len(ret.val) = 3

C8_PanicsWithoutOutput ==
    (result.tag = "Err" /\ ~error_output(result.err).some /\ pc # "match") =>
        /\ pc = "panicked"
        /\ ret = NoValue

C8_Witness ==
    /\ pc = "panicked"
    /\ result.tag = "Err"
    /\ result.err.cause = "SpawnFailed"

(* C9: a call starts the child process exactly once, before any            *)
(* classification or parsing, and no outcome starts it again.              *)
C9_SpawnedOnce ==
    /\ pc = "idle" => spawned = 0
    /\ pc \in {"match", "returned", "panicked"} => spawned = 1
    /\ decoded => spawned = 1

C9_Witness ==
    /\ Failed
    /\ ret = Ok(<<>>)
    /\ spawned = 1

(* C10: exit status, then decoding, then architecture lookup in event      *)
(* order; the first failing stage decides.  A non-zero exit is neither     *)
(* decoded nor parsed and yields neither InvalidUtf8 nor ArchInvalid;      *)
(* undecodable standard-out never yields ArchInvalid; of several           *)
(* unrecognized architectures the first is carried; on a zero exit         *)
(* standard-error does not affect the result.                              *)
C10_StageOrder ==
    /\ (pc = "returned" /\ result.tag = "Err") =>
           ~decoded /\ ~IsInvalidUtf8(ret) /\ ~IsArchInvalid(ret)
    /\ (Completed /\ ~Decodes) => ~IsArchInvalid(ret)
    /\ (Completed /\ Decodes /\ Cardinality(Unrecognized) > 1) =>
           IsArchInvalid(ret) /\ ret.err.arch = FirstUnrecognized.model_arch
    /\ Completed => ret = parse_device_list([stdout |-> result.val.stdout, stderr |-> <<>>])

(* two different unrecognized architectures, standard-error not empty *)
C10_Witness ==
    /\ Completed /\ Decodes
    /\ Cardinality(Unrecognized) = 2
    /\ Cardinality({Announcements[i].model_arch : i \in Unrecognized}) = 2
    /\ result.val.stderr # <<>>
    /\ IsArchInvalid(ret)

====
